---- MODULE Spec2Model ----
(***************************************************************************)
(* A model of pygts: the remote lookup (request_data), the existence probe *)
(* (species_exists) and the parallel batch fetcher                         *)
(* (fetch_species_data_parallel) of src/src/pygts/data_fetcher.py.         *)
(*                                                                         *)
(* Two specifications share the variables:                                 *)
(*   SpecLookup  one server answer, one call of request_data and one call  *)
(*               of species_exists against it;                             *)
(*   Spec        one call of fetch_species_data_parallel on a DataFrame    *)
(*               of at most MaxRows rows with a pool of at most            *)
(*               MaxWorkers threads.                                       *)
(***************************************************************************)
EXTENDS Integers, Sequences, FiniteSets, TLC

VARIABLES
    \* ---- lookup / probe (SpecLookup) ----
    net,        \* what the server does with the GET: raise, or a response
    pcRD,       \* request_data: "start", "waiting", "returned", "raised"
    rdRet,      \* value returned by request_data (a Python value)
    pcSE,       \* species_exists: "start", "waiting", "returned", "raised"
    seRet,      \* value returned by species_exists
    gets,       \* the network requests issued so far, in order
    out,        \* lines printed to stdout so far, in order
    \* ---- batch fetcher (Spec) ----
    index,      \* species_df.index: the label of every row, by position 1..N
    maxWorkers, \* the max_workers argument
    pc,         \* main thread: "start", "submit", "collect", "unwind", "returned", "raised"
    submitted,  \* number of rows whose lookup has been submitted
    threads,    \* number of worker threads the executor has started
    fut,        \* per row: state of its future: "none", "pending", "running", "done"
    outcome,    \* per row: what its finished future holds
    yielded,    \* rows whose future as_completed has handed to the loop
    results,    \* the list `results` (1-based here, 0-based in the code)
    writes,     \* per slot: how many times it has been assigned
    success_count,
    failed_count,
    \* ---- extract_locations (SpecClassify) ----
    geo_data,   \* the argument: a list of location records
    pcX,        \* "start", "returned"
    xCountries, \* the returned list countries_only
    xPairs,     \* the returned list country_province_pairs
    \* ---- command line and map (SpecCli) ----
    cmd,        \* the subcommand: "check", "fetch", "visualize"
    argJson,    \* args.json
    argOutput,  \* whether -o/--output was given (args.output, save_path)
    pcCli,      \* position of the command handler
    exitCode,   \* exit status of the process, -1 while it runs
    pcPlot,     \* position of plot_species_distribution
    geo,        \* value request_data returned to the handler
    cls,        \* (countries_only, country_province_pairs) of the plot
    io,         \* read_file and savefig calls so far, in order, with their outcome
    worldPresent, \* NAMEs of the country polygons marked species_present
    provPresent,  \* (admin, name) of the province polygons marked species_present
    savefigCalls, \* number of calls of plt.savefig
    showCalls,    \* number of calls of plt.show
    \* ---- load_species_data (SpecLoad) ----
    taxon,      \* the TaxonName of the row, a sequence of characters
    pcLoad,     \* "start", "returned", "raised"
    loadedRow   \* the row of the returned DataFrame

lookupVars == <<net, pcRD, rdRet, pcSE, seRet, gets>>
batchVars  == <<index, maxWorkers, pc, submitted, threads, fut, outcome,
                yielded, results, writes, success_count, failed_count>>
classifyVars == <<geo_data, pcX, xCountries, xPairs>>
cliVars == <<cmd, argJson, argOutput, pcCli, exitCode, pcPlot, geo, cls, io,
             worldPresent, provPresent, savefigCalls, showCalls>>
loadVars == <<taxon, pcLoad, loadedRow>>
extraVars == <<classifyVars, cliVars, loadVars>>
vars == <<lookupVars, out, batchVars, extraVars>>

(***************************************************************************)
(* Bounds of the model.                                                    *)
(***************************************************************************)
MaxRows == 2
MaxWorkers == 2

(***************************************************************************)
(* Python values as they come out of response.json(): a tagged record,     *)
(* kind first so that values of different kinds compare unequal.           *)
(***************************************************************************)
None == [k |-> "None", v |-> "None"]
JBool(b) == [k |-> "bool", v |-> b]
JNum(n) == [k |-> "int", v |-> n]
JStr(s) == [k |-> "str", v |-> s]
JArr(s) == [k |-> "list", v |-> s]
JObj(f) == [k |-> "dict", v |-> f]

EmptyDict == JObj(<<>>)
EmptyList == JArr(<<>>)

\* isinstance(x, list), isinstance(x, dict)
IsList(x) == x.k = "list"
IsDict(x) == x.k = "dict"

\* Python truth value of x: `if x`, `not x`, `bool(x)`
Truthy(x) ==
    CASE x.k = "None" -> FALSE
      [] x.k = "bool" -> x.v
      [] x.k = "int" -> x.v # 0
      [] x.k = "str" -> x.v # ""
      [] x.k = "list" -> Len(x.v) > 0
      [] x.k = "dict" -> DOMAIN x.v # {}

\* d.get(key, default) on a dict d
DictGet(d, key, default) == IF key \in DOMAIN d.v THEN d.v[key] ELSE default

(***************************************************************************)
(* The server's answers.  A location record is a dict with a country; the  *)
(* response of the API is {"results": [{"TSGeolinks": [record, ...]}]}.    *)
(***************************************************************************)
Loc(c) == JObj([country |-> JStr(c)])

\* values the TSGeolinks field may hold: falsy ones, a list of records, and
\* truthy values of an unexpected type
GeolinkValues ==
    { None, EmptyList, JStr(""), JNum(0), JBool(FALSE), EmptyDict,
      JArr(<<Loc("Brazil")>>), JArr(<<Loc("Brazil"), Loc("France")>>),
      JStr("x"), JNum(1), JBool(TRUE), Loc("Brazil") }

\* elements results may hold: non-mappings, a mapping without TSGeolinks,
\* and a mapping with each TSGeolinks value
ResultElements ==
    { None, JStr("x"), JNum(1), EmptyList, EmptyDict }
        \cup { JObj([TSGeolinks |-> g]) : g \in GeolinkValues }

\* what may follow the first element of results
ResultTails == { <<>>, <<None>>, <<JObj([TSGeolinks |-> JArr(<<Loc("Peru")>>)])>> }

ResultsValues ==
    { None, EmptyList, JStr("x"), JNum(1), EmptyDict }
        \cup { JArr(<<e>> \o t) : e \in ResultElements, t \in ResultTails }

\* decoded bodies: non-mappings, a mapping without results, a mapping with results
JsonBodies ==
    { None, JStr("x"), JNum(1), EmptyList, EmptyDict }
        \cup { JObj([results |-> r]) : r \in ResultsValues }

\* the exception response.json() raises on a body that is not JSON: a plain
\* ValueError, or requests' JSONDecodeError (a RequestException and a ValueError)
JsonErrors == { "ValueError", "RequestsJSONDecodeError" }

\* the exceptions requests.get may raise
GetErrors == { "Timeout", "ConnectionError", "Exception" }

\* status codes: success, a 3xx that raise_for_status lets through, client and
\* server errors
Statuses == { 200, 300, 404, 500 }

Nets ==
    { [t |-> "raise", exc |-> e, status |-> 0, json |-> FALSE, body |-> None] :
        e \in GetErrors }
    \cup { [t |-> "response", exc |-> e, status |-> s, json |-> FALSE, body |-> None] :
        e \in JsonErrors, s \in Statuses }
    \cup { [t |-> "response", exc |-> "none", status |-> s, json |-> TRUE, body |-> b] :
        s \in Statuses, b \in JsonBodies }

(***************************************************************************)
(* Exception classes.                                                      *)
(***************************************************************************)
\* subclasses of requests.exceptions.RequestException
IsRequestException(e) ==
    e \in { "Timeout", "ConnectionError", "HTTPError", "RequestsJSONDecodeError" }

\* (KeyError, IndexError, ValueError, TypeError) and their subclasses
IsParsingError(e) ==
    e \in { "KeyError", "IndexError", "ValueError", "TypeError", "RequestsJSONDecodeError" }

\* subclasses of Exception
IsException(e) ==
    IsRequestException(e) \/ IsParsingError(e) \/ e \in { "Exception", "AttributeError" }

\* response.raise_for_status(): raises HTTPError on a 4xx or 5xx status
raise_for_status(status) == 400 <= status /\ status < 600

\* timeout=10 of requests.get
RequestTimeout == 10

Ok(val) == [exc |-> "none", val |-> val]
Raise(e) == [exc |-> e, val |-> None]

(***************************************************************************)
(* request_data                                                            *)
(***************************************************************************)
\* a variant that consults the last element of results
rd_parse_last(response_dict) ==
    IF ~IsDict(response_dict) THEN Raise("AttributeError")
    ELSE LET res == DictGet(response_dict, "results", EmptyList) IN
         IF ~Truthy(res) \/ ~IsList(res) THEN Ok(None)
         ELSE LET first_result == res.v[Len(res.v)] IN
              IF ~IsDict(first_result) THEN Ok(None)
              ELSE LET countries_dicts == DictGet(first_result, "TSGeolinks", EmptyList) IN
                   IF Truthy(countries_dicts) THEN Ok(countries_dicts) ELSE Ok(None)

\* a variant that returns TSGeolinks as it is
rd_parse_verbatim(response_dict) ==
    IF ~IsDict(response_dict) THEN Raise("AttributeError")
    ELSE LET res == DictGet(response_dict, "results", EmptyList) IN
         IF ~Truthy(res) \/ ~IsList(res) THEN Ok(None)
         ELSE LET first_result == res.v[1] IN
              IF ~IsDict(first_result) THEN Ok(None)
              ELSE Ok(DictGet(first_result, "TSGeolinks", EmptyList))

\* lines 107-116: navigate the decoded body
rd_parse(response_dict) ==
    IF ~IsDict(response_dict) THEN Raise("AttributeError")
    ELSE LET res == DictGet(response_dict, "results", EmptyList) IN
         IF ~Truthy(res) \/ ~IsList(res) THEN Ok(None)
         ELSE LET first_result == res.v[1] IN
              IF ~IsDict(first_result) THEN Ok(None)
              ELSE LET countries_dicts == DictGet(first_result, "TSGeolinks", EmptyList) IN
                   IF Truthy(countries_dicts) THEN Ok(countries_dicts) ELSE Ok(None)

\* lines 98-116: the body of the try, given what the server does
rd_try(n) ==
    IF n.t = "raise" THEN Raise(n.exc)
    ELSE IF raise_for_status(n.status) THEN Raise("HTTPError")
    ELSE IF ~n.json THEN Raise(n.exc)
    ELSE rd_parse(n.body)

Diag(line, e) == <<[line |-> line, exc |-> e]>>

\* a variant that is silent on request errors
rd_handle_quiet(t) ==
    IF t.exc = "none" THEN [pc |-> "returned", ret |-> t.val, out |-> <<>>]
    ELSE IF IsRequestException(t.exc)
         THEN [pc |-> "returned", ret |-> None, out |-> <<>>]
    ELSE IF IsParsingError(t.exc)
         THEN [pc |-> "returned", ret |-> None, out |-> Diag("Data parsing error", t.exc)]
    ELSE IF IsException(t.exc)
         THEN [pc |-> "returned", ret |-> None, out |-> Diag("Unexpected error", t.exc)]
    ELSE [pc |-> "raised", ret |-> None, out |-> <<>>]

\* lines 118-129: the except clauses, in order
rd_handle(t) ==
    IF t.exc = "none" THEN [pc |-> "returned", ret |-> t.val, out |-> <<>>]
    ELSE IF IsRequestException(t.exc)
         THEN [pc |-> "returned", ret |-> None, out |-> Diag("Request error", t.exc)]
    ELSE IF IsParsingError(t.exc)
         THEN [pc |-> "returned", ret |-> None, out |-> Diag("Data parsing error", t.exc)]
    ELSE IF IsException(t.exc)
         THEN [pc |-> "returned", ret |-> None, out |-> Diag("Unexpected error", t.exc)]
    ELSE [pc |-> "raised", ret |-> None, out |-> <<>>]

\* a variant that tries again after a failed attempt
request_data_retry(n) ==
    LET r == rd_handle(rd_try(n)) IN
    IF r.ret = None THEN [r EXCEPT !.pc = "start"] ELSE r

\* lines 97-129: what the call does once the GET has ended
request_data(n) == rd_handle(rd_try(n))

(***************************************************************************)
(* species_exists                                                          *)
(***************************************************************************)
\* a variant that accepts any list
se_parse_anylist(response_dict) ==
    IF ~IsDict(response_dict) THEN Raise("AttributeError")
    ELSE LET res == DictGet(response_dict, "results", EmptyList) IN
         Ok(IsList(res))

\* a variant that wants more than one result
se_parse_multi(response_dict) ==
    IF ~IsDict(response_dict) THEN Raise("AttributeError")
    ELSE LET res == DictGet(response_dict, "results", EmptyList) IN
         Ok(Truthy(res) /\ IsList(res) /\ Len(res.v) > 1)

\* lines 58-61
se_parse(response_dict) ==
    IF ~IsDict(response_dict) THEN Raise("AttributeError")
    ELSE LET res == DictGet(response_dict, "results", EmptyList) IN
         Ok(Truthy(res) /\ IsList(res) /\ Len(res.v) > 0)

\* lines 54-61: the body of the try
se_try(n) ==
    IF n.t = "raise" THEN Raise(n.exc)
    ELSE IF raise_for_status(n.status) THEN Raise("HTTPError")
    ELSE IF ~n.json THEN Raise(n.exc)
    ELSE se_parse(n.body)

\* a variant that catches network errors only
se_handle_narrow(t) ==
    IF t.exc = "none" THEN [pc |-> "returned", ret |-> t.val]
    ELSE IF IsRequestException(t.exc) THEN [pc |-> "returned", ret |-> FALSE]
    ELSE [pc |-> "raised", ret |-> FALSE]

\* lines 62-63: except Exception: return False
se_handle(t) ==
    IF t.exc = "none" THEN [pc |-> "returned", ret |-> t.val]
    ELSE IF IsException(t.exc) THEN [pc |-> "returned", ret |-> FALSE]
    ELSE [pc |-> "raised", ret |-> FALSE]

\* lines 53-63: what the call does once the GET has ended
species_exists(n) == se_handle(se_try(n))

(***************************************************************************)
(* SpecLookup: one call of request_data and one call of species_exists,    *)
(* each a GET (the only suspension point) and then the rest of the call.   *)
(***************************************************************************)
\* the functions of the other specifications are not called
ClassifyIdle ==
    /\ geo_data = <<>>
    /\ pcX = "idle"
    /\ xCountries = <<>>
    /\ xPairs = <<>>

CliIdle ==
    /\ cmd = "none"
    /\ argJson = FALSE
    /\ argOutput = FALSE
    /\ pcCli = "idle"
    /\ exitCode = 0 - 1
    /\ pcPlot = "idle"
    /\ geo = None
    /\ cls = [countries_only |-> <<>>, country_province_pairs |-> <<>>]
    /\ io = <<>>
    /\ worldPresent = {}
    /\ provPresent = {}
    /\ savefigCalls = 0
    /\ showCalls = 0

LoadIdle ==
    /\ taxon = <<>>
    /\ pcLoad = "idle"
    /\ loadedRow = [TaxonName |-> <<>>, Genus |-> <<>>, Species |-> <<>>]

ExtraIdle == ClassifyIdle /\ CliIdle /\ LoadIdle

LookupIdle ==
    /\ net = [t |-> "raise", exc |-> "Timeout", status |-> 0, json |-> FALSE, body |-> None]
    /\ pcRD = "idle"
    /\ rdRet = None
    /\ pcSE = "idle"
    /\ seRet = FALSE
    /\ gets = <<>>

BatchIdle ==
    /\ index = <<>>
    /\ maxWorkers = 1
    /\ pc = "idle"
    /\ submitted = 0
    /\ threads = 0
    /\ fut = <<>>
    /\ outcome = <<>>
    /\ yielded = {}
    /\ results = <<>>
    /\ writes = <<>>
    /\ success_count = 0
    /\ failed_count = 0

InitLookup ==
    /\ net \in Nets
    /\ pcRD = "start"
    /\ rdRet = None
    /\ pcSE = "start"
    /\ seRet = FALSE
    /\ gets = <<>>
    /\ out = <<>>
    /\ BatchIdle
    /\ ExtraIdle

\* line 99: requests.get(url, timeout=10)
RD_Get ==
    /\ pcRD = "start"
    /\ gets' = Append(gets, [by |-> "request_data", timeout |-> RequestTimeout])
    /\ pcRD' = "waiting"
    /\ UNCHANGED <<net, rdRet, pcSE, seRet, out, batchVars, extraVars>>

\* lines 99-129: the GET ends and the call runs to its end
RD_End ==
    /\ pcRD = "waiting"
    /\ LET r == request_data(net) IN
        /\ pcRD' = r.pc
        /\ rdRet' = r.ret
        /\ out' = out \o r.out
    /\ UNCHANGED <<net, pcSE, seRet, gets, batchVars, extraVars>>

\* line 55: requests.get(url, timeout=10)
SE_Get ==
    /\ pcSE = "start"
    /\ gets' = Append(gets, [by |-> "species_exists", timeout |-> RequestTimeout])
    /\ pcSE' = "waiting"
    /\ UNCHANGED <<net, pcRD, rdRet, seRet, out, batchVars, extraVars>>

\* lines 55-63: the GET ends and the call runs to its end
SE_End ==
    /\ pcSE = "waiting"
    /\ LET r == species_exists(net) IN
        /\ pcSE' = r.pc
        /\ seRet' = r.ret
    /\ UNCHANGED <<net, pcRD, rdRet, gets, out, batchVars, extraVars>>

NextLookup == RD_Get \/ RD_End \/ SE_Get \/ SE_End

SpecLookup == InitLookup /\ [][NextLookup]_vars

\* the GETs a function has issued
GetsBy(f) == SelectSeq(gets, LAMBDA g : g.by = f)

(***************************************************************************)
(* Properties of the lookup and the probe (checked under SpecLookup).      *)
(***************************************************************************)
RDEnded == pcRD \in { "returned", "raised" }
SEEnded == pcSE \in { "returned", "raised" }

\* a list of location records: list[dict]
IsLocationList(x) == IsList(x) /\ \A i \in 1..Len(x.v) : IsDict(x.v[i])

\* the GET raised, or the response carries an HTTP error status
TransportFailed(n) == n.t = "raise" \/ (n.status >= 400 /\ n.status <= 599)

\* the body was received with a success status
BodyReceived(n) == n.t = "response" /\ ~TransportFailed(n)

\* request_data ends by returning, whatever the server does
LookupNeverRaises == pcRD # "raised"

\* C4: request_data never propagates a fault: for every transport outcome and
\* every response body it returns, and what it returns is a location list or None.
C4_ReturnsListOrNone ==
    RDEnded => pcRD = "returned" /\ (rdRet = None \/ IsLocationList(rdRet))

\* empty in Python's sense: None, False, 0, "", [] and {}
IsEmptyValue(x) ==
    x \in { None, JBool(FALSE), JNum(0), JStr(""), EmptyList, EmptyDict }

\* results is a non-empty sequence, its first element is a mapping, and that
\* element's TSGeolinks is present and non-empty
HasFirstGeolinks(n) ==
    /\ n.json
    /\ IsDict(n.body)
    /\ "results" \in DOMAIN n.body.v
    /\ IsList(n.body.v.results)
    /\ Len(n.body.v.results.v) >= 1
    /\ IsDict(n.body.v.results.v[1])
    /\ "TSGeolinks" \in DOMAIN n.body.v.results.v[1].v
    /\ ~IsEmptyValue(n.body.v.results.v[1].v.TSGeolinks)

\* C5: for a successfully received body, request_data returns the TSGeolinks of
\* the first element of results verbatim exactly when results is a non-empty
\* sequence whose first element is a mapping with a present, non-empty
\* TSGeolinks, and None in every other case; later elements have no influence.
C5_FirstGeolinksVerbatim ==
    (RDEnded /\ BodyReceived(net)) =>
        /\ pcRD = "returned"
        /\ rdRet = IF HasFirstGeolinks(net)
                   THEN net.body.v.results.v[1].v.TSGeolinks
                   ELSE None

\* request_data has returned the first element's TSGeolinks although a later
\* element of results carries another, non-empty TSGeolinks
C5_Witness ==
    /\ pcRD = "returned"
    /\ BodyReceived(net)
    /\ HasFirstGeolinks(net)
    /\ Len(net.body.v.results.v) = 2
    /\ net.body.v.results.v[2] = JObj([TSGeolinks |-> JArr(<<Loc("Peru")>>)])
    /\ rdRet = net.body.v.results.v[1].v.TSGeolinks
    /\ rdRet # JArr(<<Loc("Peru")>>)

\* the decoded body is a mapping whose results field is missing or empty
ResultsMissingOrEmpty(n) ==
    /\ n.t = "response"
    /\ n.json
    /\ IsDict(n.body)
    /\ \/ "results" \notin DOMAIN n.body.v
       \/ n.body.v.results \in { None, EmptyList, EmptyDict }

\* C6: for every response whose results field is missing or empty,
\* request_data returns None and species_exists returns False.
C6_AbsentOnEmptyResults ==
    ResultsMissingOrEmpty(net) =>
        /\ RDEnded => (pcRD = "returned" /\ rdRet = None)
        /\ SEEnded => (pcSE = "returned" /\ seRet = FALSE)

\* both calls have returned on a success response whose results is []
C6_Witness ==
    /\ pcRD = "returned"
    /\ pcSE = "returned"
    /\ net.t = "response"
    /\ net.status = 200
    /\ net.json
    /\ net.body = JObj([results |-> EmptyList])
    /\ rdRet = None
    /\ seRet = FALSE

\* the transport raises, or the parsing of the response raises
ProbeFaults(n) ==
    \/ TransportFailed(n)
    \/ ~n.json
    \/ ~IsDict(n.body)

\* C7: species_exists never raises: whenever the transport or the parsing of the
\* response raises any exception, it returns False.
C7_ProbeNeverRaises ==
    /\ pcSE # "raised"
    /\ (SEEnded /\ ProbeFaults(net)) => (pcSE = "returned" /\ seRet = FALSE)

\* species_exists has returned False after the GET raised a plain Exception
C7_Witness ==
    /\ pcSE = "returned"
    /\ net.t = "raise"
    /\ net.exc = "Exception"
    /\ seRet = FALSE

\* C10: each call of request_data and of species_exists issues exactly one
\* network request, with a timeout of 10, and never a second one: after a
\* timeout, a failure or a non-success status the call ends with the absence
\* signal without a retry.
C10_OneRequestNoRetry ==
    /\ \A i \in 1..Len(gets) : gets[i].timeout = 10
    /\ Len(GetsBy("request_data")) = (IF pcRD = "start" THEN 0 ELSE 1)
    /\ Len(GetsBy("species_exists")) = (IF pcSE = "start" THEN 0 ELSE 1)
    /\ (pcRD \notin { "start", "waiting" } /\ TransportFailed(net)) =>
            (pcRD = "returned" /\ rdRet = None)
    /\ (pcSE \notin { "start", "waiting" } /\ TransportFailed(net)) =>
            (pcSE = "returned" /\ seRet = FALSE)

\* request_data has returned None after a timeout, having issued one GET
C10_Witness ==
    /\ net.t = "raise"
    /\ net.exc = "Timeout"
    /\ pcRD = "returned"
    /\ rdRet = None
    /\ Len(GetsBy("request_data")) = 1
    /\ pcSE = "returned"
    /\ Len(GetsBy("species_exists")) = 1

\* an exception is raised while the body is read: it is not JSON, or it is not
\* a JSON object
ParsingError(n) == BodyReceived(n) /\ (~n.json \/ ~IsDict(n.body))

\* C26 as stated: request_data emits a diagnostic line on any parsing error,
\* and outcomes that are not parsing errors emit nothing.
C26_DiagnosticOnlyOnParsingError ==
    RDEnded => IF ParsingError(net) THEN Len(out) = 1 ELSE out = <<>>

\* C26 amended: request_data emits exactly one diagnostic line, carrying the
\* error, whenever an exception is raised inside it (the GET fails, the status
\* is an HTTP error, the body is not JSON or not a JSON object), and nothing
\* otherwise.
C26_DiagnosticOnEveryFault ==
    RDEnded =>
        IF TransportFailed(net) \/ ParsingError(net)
        THEN /\ Len(out) = 1
             /\ out[1].line \in { "Request error", "Data parsing error", "Unexpected error" }
             /\ out[1].exc # "none"
             /\ rdRet = None
        ELSE out = <<>>

\* a timeout has been reported
C26_Witness ==
    /\ pcRD = "returned"
    /\ net.t = "raise"
    /\ out = Diag("Request error", "Timeout")

\* C27: for one and the same transport outcome and body, if request_data
\* returns a location list then species_exists returns True.
C27_DataImpliesExists ==
    (RDEnded /\ SEEnded /\ rdRet # None /\ IsLocationList(rdRet)) => seRet = TRUE

\* both calls have ended on an answer that carries a list of records
C27_Witness ==
    /\ pcRD = "returned"
    /\ pcSE = "returned"
    /\ rdRet = JArr(<<Loc("Brazil")>>)
    /\ seRet = TRUE

\* The converse of C27 does not hold: this state, where species_exists has
\* returned True and request_data None on the same answer, is reachable.
ExistsWithoutData ==
    /\ pcRD = "returned"
    /\ pcSE = "returned"
    /\ seRet = TRUE
    /\ rdRet = None

\* C28: request_data never returns an empty list: its result is None or a
\* non-empty value, so `data is None` and `not geo_data` select the same lookups.
C28_NoneOrNonEmpty ==
    RDEnded =>
        /\ rdRet # EmptyList
        /\ (rdRet = None) <=> ~Truthy(rdRet)

\* the server answered with an empty TSGeolinks and request_data returned None
C28_Witness ==
    /\ pcRD = "returned"
    /\ net.t = "response"
    /\ net.json
    /\ net.body = JObj([results |-> JArr(<<JObj([TSGeolinks |-> EmptyList])>>)])
    /\ rdRet = None

(***************************************************************************)
(* Spec: one call of fetch_species_data_parallel(species_df, max_workers). *)
(* Rows are numbered 1..N by position; index[i] is the label iterrows()    *)
(* yields for row i (0-based in a default RangeIndex).  The main thread    *)
(* submits, then takes finished futures from as_completed in any order;    *)
(* worker threads take the queued lookups in submission order.             *)
(***************************************************************************)
N == Len(index)
Rows == 1..N

\* the labels a row of the DataFrame may carry: those of the default index and
\* one more, in any arrangement (reordered, repeated, shifted by a filter)
Labels == 0..MaxRows

\* the query of row i identifies the row: the server answers it with the
\* country ToString(i)
RowData(i) == JArr(<<Loc(ToString(i))>>)

\* what the server may do with the GET of row i: time out, answer with a list of
\* records, or answer with a single record where the list is expected
RowNets(i) ==
    { [t |-> "raise", exc |-> "Timeout", status |-> 0, json |-> FALSE, body |-> None],
      [t |-> "response", exc |-> "none", status |-> 200, json |-> TRUE,
       body |-> JObj([results |-> JArr(<<JObj([TSGeolinks |-> RowData(i)])>>)])],
      [t |-> "response", exc |-> "none", status |-> 200, json |-> TRUE,
       body |-> JObj([results |-> JArr(<<JObj([TSGeolinks |-> Loc(ToString(i))])>>)])] }

\* results[idx] is a valid subscript of a list of n elements
ValidSubscript(idx, n) == (0 - n) <= idx /\ idx < n

\* the (1-based) slot results[idx] names, negative subscripts counting from the end
Slot(idx, n) == IF idx >= 0 THEN idx + 1 ELSE n + idx + 1

\* {"error": str(e)}
ErrorDict(e) == JObj([error |-> JStr(e)])

InitBatch ==
    /\ index \in UNION { [1..n -> Labels] : n \in 0..MaxRows }
    /\ maxWorkers \in 1..MaxWorkers
    /\ pc = "start"
    /\ submitted = 0
    /\ threads = 0
    /\ fut = [i \in 1..Len(index) |-> "none"]
    /\ outcome = [i \in 1..Len(index) |-> Ok(None)]
    /\ yielded = {}
    /\ results = <<>>
    /\ writes = <<>>
    /\ success_count = 0
    /\ failed_count = 0
    /\ out = <<>>
    /\ net = [t |-> "raise", exc |-> "Timeout", status |-> 0, json |-> FALSE, body |-> None]
    /\ pcRD = "idle"
    /\ rdRet = None
    /\ pcSE = "idle"
    /\ seRet = FALSE
    /\ gets = <<>>
    /\ ExtraIdle

Running == { i \in Rows : fut[i] = "running" }

\* a variant whose executor starts its max_workers threads when it is created
Start_eager ==
    /\ pc = "start"
    /\ results' = [i \in Rows |-> None]
    /\ writes' = [i \in Rows |-> 0]
    /\ success_count' = 0
    /\ failed_count' = 0
    /\ threads' = maxWorkers
    /\ pc' = IF N = 0 THEN "collect" ELSE "submit"
    /\ UNCHANGED <<extraVars, lookupVars, out, index, maxWorkers, submitted, fut,
                   outcome, yielded>>

\* lines 170-174: the result list, the counters, the executor
Start ==
    /\ pc = "start"
    /\ results' = [i \in Rows |-> None]
    /\ writes' = [i \in Rows |-> 0]
    /\ success_count' = 0
    /\ failed_count' = 0
    /\ pc' = IF N = 0 THEN "collect" ELSE "submit"
    /\ UNCHANGED <<extraVars, lookupVars, out, index, maxWorkers, submitted, threads, fut,
                   outcome, yielded>>

\* a variant whose executor starts a thread at every submit
Submit_spawn ==
    /\ pc = "submit"
    /\ submitted < N
    /\ submitted' = submitted + 1
    /\ fut' = [fut EXCEPT ![submitted + 1] = "pending"]
    /\ threads' = threads + 1
    /\ pc' = IF submitted + 1 = N THEN "collect" ELSE "submit"
    /\ UNCHANGED <<extraVars, lookupVars, out, index, maxWorkers, outcome, yielded, results,
                   writes, success_count, failed_count>>

\* lines 176-179: executor.submit for the next row; the executor starts a
\* thread while it has fewer than max_workers, unless it finds one idle
Submit ==
    /\ pc = "submit"
    /\ submitted < N
    /\ submitted' = submitted + 1
    /\ fut' = [fut EXCEPT ![submitted + 1] = "pending"]
    /\ \/ /\ threads < maxWorkers
          /\ threads' = threads + 1
       \/ /\ threads = maxWorkers \/ threads > Cardinality(Running)
          /\ threads' = threads
    /\ pc' = IF submitted + 1 = N THEN "collect" ELSE "submit"
    /\ UNCHANGED <<extraVars, lookupVars, out, index, maxWorkers, outcome, yielded, results,
                   writes, success_count, failed_count>>

\* a free worker thread takes the oldest queued lookup
WorkerStart(i) ==
    /\ fut[i] = "pending"
    /\ \A j \in 1..(i - 1) : fut[j] # "pending"
    /\ Cardinality(Running) < threads
    /\ fut' = [fut EXCEPT ![i] = "running"]
    /\ UNCHANGED <<extraVars, lookupVars, out, index, maxWorkers, pc, submitted, threads,
                   outcome, yielded, results, writes, success_count, failed_count>>

\* the lookup of row i ends: request_data returns on what the server did
WorkerReturn(i) ==
    /\ fut[i] = "running"
    /\ \E n \in RowNets(i) :
        LET r == request_data(n) IN
        /\ r.pc \in { "returned", "raised" }
        /\ outcome' = [outcome EXCEPT ![i] =
                          IF r.pc = "returned" THEN Ok(r.ret) ELSE Raise("Exception")]
        /\ out' = out \o r.out
    /\ fut' = [fut EXCEPT ![i] = "done"]
    /\ UNCHANGED <<extraVars, lookupVars, index, maxWorkers, pc, submitted, threads, yielded,
                   results, writes, success_count, failed_count>>

\* the lookup of row i ends with a fault (tests: request_data patched to raise)
WorkerFault(i) ==
    /\ fut[i] = "running"
    /\ outcome' = [outcome EXCEPT ![i] = Raise("Exception")]
    /\ fut' = [fut EXCEPT ![i] = "done"]
    /\ UNCHANGED <<extraVars, lookupVars, out, index, maxWorkers, pc, submitted, threads,
                   yielded, results, writes, success_count, failed_count>>

\* lines 187-198: the body of the loop for the finished future of row i.
\* An IndexError of `results[idx] = result` is caught by `except Exception`,
\* whose own `results[idx] = ...` raises it again, out of the loop.
CollectBody(i) ==
    LET idx == index[i]
        o == outcome[i]
    IN  IF ~ValidSubscript(idx, N)
        THEN /\ pc' = "unwind"
             /\ UNCHANGED <<results, writes, success_count, failed_count>>
        ELSE /\ pc' = "collect"
             /\ writes' = [writes EXCEPT ![Slot(idx, N)] = @ + 1]
             /\ IF o.exc = "none"
                THEN /\ results' = [results EXCEPT ![Slot(idx, N)] = o.val]
                     /\ IF o.val = None
                        THEN /\ failed_count' = failed_count + 1
                             /\ success_count' = success_count
                        ELSE /\ success_count' = success_count + 1
                             /\ failed_count' = failed_count
                ELSE /\ results' = [results EXCEPT ![Slot(idx, N)] = ErrorDict(o.exc)]
                     /\ failed_count' = failed_count + 1
                     /\ success_count' = success_count

\* lines 182-198: as_completed hands over a finished future, the loop body runs
Collect(i) ==
    /\ pc = "collect"
    /\ fut[i] = "done"
    /\ i \notin yielded
    /\ yielded' = yielded \cup {i}
    /\ CollectBody(i)
    /\ UNCHANGED <<extraVars, lookupVars, out, index, maxWorkers, submitted, threads, fut, outcome>>

\* lines 199-201: the loop is over, the executor shuts down, the summary is
\* printed and the list returned
Return ==
    /\ pc = "collect"
    /\ yielded = Rows
    /\ out' = Append(out, [line |-> "Completed", success |-> success_count,
                           failed |-> failed_count])
    /\ pc' = "returned"
    /\ UNCHANGED <<extraVars, lookupVars, index, maxWorkers, submitted, threads, fut, outcome,
                   yielded, results, writes, success_count, failed_count>>

\* line 174: an exception leaves the with block: the executor's shutdown waits
\* for every submitted lookup, then the exception leaves the call
Unwind ==
    /\ pc = "unwind"
    /\ \A i \in Rows : fut[i] = "done"
    /\ pc' = "raised"
    /\ UNCHANGED <<extraVars, lookupVars, out, index, maxWorkers, submitted, threads, fut,
                   outcome, yielded, results, writes, success_count, failed_count>>

Next ==
    \/ Start
    \/ Submit
    \/ \E i \in Rows : WorkerStart(i)
    \/ \E i \in Rows : WorkerReturn(i)
    \/ \E i \in Rows : WorkerFault(i)
    \/ \E i \in Rows : Collect(i)
    \/ Return
    \/ Unwind

Spec == InitBatch /\ [][Next]_vars

(***************************************************************************)
(* Properties of the batch fetcher (checked under Spec).                   *)
(***************************************************************************)
CallEnded == pc \in { "returned", "raised" }

\* what the slot of a row is to hold, given what its finished future holds
SlotValueOf(o) == IF o.exc = "none" THEN o.val ELSE ErrorDict(o.exc)

\* a dict with an 'error' key
IsErrorDict(x) == IsDict(x) /\ "error" \in DOMAIN x.v

\* the DataFrame carries the default index 0, 1, ..., N-1
RangeIndex == \A i \in Rows : index[i] = i - 1

\* C1: for every interleaving of completions and every max_workers >= 1, the
\* returned list holds at position i the outcome of the lookup of the i-th
\* input row: the output order is the input order.
C1_OutputOrderIsInputOrder ==
    pc = "returned" => \A i \in Rows : results[i] = SlotValueOf(outcome[i])

\* C2: for every input of N rows and every max_workers >= 1 the call returns a
\* list of exactly N elements, also when lookups return None or raise.
C2_ReturnsNElements ==
    CallEnded => (pc = "returned" /\ Len(results) = N)

\* C3: a fault raised by the lookup of one item is recorded in that item's slot
\* as {'error': message} and never escapes the call; the lookups of all other
\* items run to completion and their slots hold their own results.
C3_FaultIsolated ==
    (CallEnded /\ \E i \in Rows : outcome[i].exc # "none") =>
        /\ pc = "returned"
        /\ \A i \in Rows :
            /\ fut[i] = "done"
            /\ results[i] = SlotValueOf(outcome[i])
            /\ outcome[i].exc # "none" => IsErrorDict(results[i])

\* C8: every slot of the returned list holds a list of location records, None,
\* or a dict with an 'error' key, and no other kind of value.
C8_ThreeSlotKinds ==
    pc = "returned" =>
        \A i \in Rows :
            \/ IsLocationList(results[i])
            \/ results[i] = None
            \/ IsErrorDict(results[i])

\* C9: called with an empty input, the call returns an empty list without
\* submitting any lookup and without starting any worker.
C9_EmptyInputNoWork ==
    N = 0 =>
        /\ submitted = 0
        /\ threads = 0
        /\ pc \in { "start", "collect", "returned" }
        /\ pc = "returned" => results = <<>>

\* the call on an empty DataFrame has returned
C9_Witness ==
    /\ N = 0
    /\ pc = "returned"
    /\ results = <<>>
    /\ submitted = 0
    /\ threads = 0

\* With the default index the three properties above hold: the call returns,
\* N elements, each the outcome of its own row.
AlignedUnderRangeIndex ==
    RangeIndex =>
        /\ pc \notin { "unwind", "raised" }
        /\ pc = "returned" =>
            /\ Len(results) = N
            /\ \A i \in Rows :
                /\ results[i] = SlotValueOf(outcome[i])
                /\ writes[i] = 1

\* C21: each lookup's result is written at the position of its row, whatever
\* the row index labels are; the slot chosen never falls outside 0..N-1 and
\* never collides with another row's slot.  Slot s has been written once when
\* the future of row s has been handled, and not at all before.
C21_SlotIsRowPosition ==
    /\ pc \notin { "unwind", "raised" }
    /\ pc # "start" => \A sl \in Rows : writes[sl] = IF sl \in yielded THEN 1 ELSE 0

\* C22: when the call returns, every one of the N lookups has completed and
\* each of the N slots has been written exactly once; no slot is ever written
\* twice, and the call ends by returning.
C22_EachSlotWrittenOnce ==
    /\ pc # "start" => \A sl \in Rows : writes[sl] <= 1
    /\ CallEnded =>
        /\ pc = "returned"
        /\ \A i \in Rows : fut[i] = "done" /\ writes[i] = 1

\* the futures that exist are those of the rows submitted so far
SubmittedRows == { i \in Rows : fut[i] # "none" }

\* C23: at every moment the number of lookups executing concurrently is at
\* most max_workers, and exactly one lookup is submitted per input row.
C23_BoundedConcurrency ==
    /\ Cardinality(Running) <= maxWorkers
    /\ threads <= maxWorkers
    /\ SubmittedRows = 1..submitted
    /\ submitted <= N
    /\ pc \notin { "start", "submit" } => submitted = N

\* fewer workers than rows: one lookup runs while the next one waits
C23_Witness ==
    /\ maxWorkers = 1
    /\ N = 2
    /\ fut[1] = "running"
    /\ fut[2] = "pending"
    /\ threads = 1

\* the slots of the returned list that hold a lookup result other than None,
\* and those that hold None or an error dict
SuccessSlots == { i \in Rows : results[i] # None /\ ~IsErrorDict(results[i]) }
FailedSlots == { i \in Rows : results[i] = None \/ IsErrorDict(results[i]) }

\* C24: the aggregate reported is consistent with the returned list:
\* success_count is the number of slots holding a lookup result other than
\* None, failed_count the number of slots holding None or an error dict, and
\* their sum is N.
C24_CountsMatchList ==
    pc = "returned" =>
        /\ out[Len(out)] = [line |-> "Completed", success |-> success_count,
                            failed |-> failed_count]
        /\ success_count = Cardinality(SuccessSlots)
        /\ failed_count = Cardinality(FailedSlots)
        /\ success_count + failed_count = N

\* With the default index the four properties above hold.
WritesUnderRangeIndex ==
    RangeIndex =>
        /\ C21_SlotIsRowPosition
        /\ C22_EachSlotWrittenOnce
        /\ C24_CountsMatchList

(***************************************************************************)
(* SpecFair: the same call under fair scheduling.  The main thread runs    *)
(* when it can, a free worker thread takes a queued lookup, and every      *)
(* lookup that runs ends (request_data has a timeout on its only wait).    *)
(***************************************************************************)
Fairness ==
    /\ WF_vars(Start)
    /\ WF_vars(Submit)
    /\ WF_vars(\E i \in Rows : Collect(i))
    /\ WF_vars(Return)
    /\ WF_vars(Unwind)
    /\ \A i \in 1..MaxRows : WF_vars(i \in Rows /\ WorkerStart(i))
    /\ \A i \in 1..MaxRows : WF_vars(i \in Rows /\ (WorkerReturn(i) \/ WorkerFault(i)))

SpecFair == InitBatch /\ [][Next]_vars /\ Fairness

\* C25: if every lookup eventually terminates, then under fair scheduling of
\* the workers the call eventually returns, for any N and any max_workers >= 1.
C25_EventuallyReturns == <>(pc = "returned")

\* Under the same fairness the call always ends, by returning or by raising.
EventuallyEnds == <>CallEnded

\* With the default index the call eventually returns.
ReturnsUnderRangeIndex == RangeIndex => <>(pc = "returned")

(***************************************************************************)
(* extract_locations (src/src/pygts/visualizer.py).                        *)
(***************************************************************************)
MaxRecords == 2

\* a key the record does not carry
Absent == [k |-> "absent", v |-> "absent"]

\* what the country and the province of a record may be
CountryValues == { Absent, None, JStr(""), JStr("Brazil"), JStr("France") }
ProvinceValues == { Absent, None, JStr(""), JStr("Bahia") }

\* the dict {"country": c, "province": p}, without the keys that are Absent
Record(c, p) ==
    JObj([key \in (IF c = Absent THEN {} ELSE {"country"})
                    \cup (IF p = Absent THEN {} ELSE {"province"}) |->
            IF key = "country" THEN c ELSE p])

LocationRecords == { Record(c, p) : c \in CountryValues, p \in ProvinceValues }

\* the lists of records extract_locations is called on
GeoLists == UNION { [1..n -> LocationRecords] : n \in 0..MaxRecords }

Range(sq) == { sq[i] : i \in 1..Len(sq) }

\* a variant that appends to a list
SetAdd_append(st, x) == Append(st, x)

\* set.add: the set is kept as the sequence of its distinct elements
SetAdd(st, x) == IF x \in Range(st) THEN st ELSE Append(st, x)

\* list(set): the elements in any order
ListsOf(st) ==
    { [i \in 1..Len(st) |-> st[f[i]]] :
        f \in { g \in [1..Len(st) -> 1..Len(st)] :
                  \A i, j \in 1..Len(st) : i # j => g[i] # g[j] } }

\* a variant that tests the province against None only
xl_entry_notnone(acc, entry) ==
    LET country == DictGet(entry, "country", None)
        province == DictGet(entry, "province", None)
    IN  IF Truthy(country)
        THEN IF province # None
             THEN [acc EXCEPT !.country_province_pairs = Append(@, <<country, province>>)]
             ELSE [acc EXCEPT !.countries_only = SetAdd(@, country)]
        ELSE acc

\* a variant that records the country of every record that has one
xl_entry_allcountries(acc, entry) ==
    LET country == DictGet(entry, "country", None)
        province == DictGet(entry, "province", None)
    IN  IF Truthy(country)
        THEN IF Truthy(province)
             THEN [acc EXCEPT !.country_province_pairs = Append(@, <<country, province>>),
                              !.countries_only = SetAdd(@, country)]
             ELSE [acc EXCEPT !.countries_only = SetAdd(@, country)]
        ELSE acc

\* a variant that inserts a pair at the front
xl_entry_prepend(acc, entry) ==
    LET country == DictGet(entry, "country", None)
        province == DictGet(entry, "province", None)
    IN  IF Truthy(country)
        THEN IF Truthy(province)
             THEN [acc EXCEPT !.country_province_pairs = <<<<country, province>>>> \o @]
             ELSE [acc EXCEPT !.countries_only = SetAdd(@, country)]
        ELSE acc

\* lines 64-71: the body of the loop for one record
xl_entry(acc, entry) ==
    LET country == DictGet(entry, "country", None)
        province == DictGet(entry, "province", None)
    IN  IF Truthy(country)
        THEN IF Truthy(province)
             THEN [acc EXCEPT !.country_province_pairs = Append(@, <<country, province>>)]
             ELSE [acc EXCEPT !.countries_only = SetAdd(@, country)]
        ELSE acc

RECURSIVE xl_loop(_, _, _)
\* lines 63-71: the loop over geo_data, from record i on
xl_loop(geodata, i, acc) ==
    IF i > Len(geodata) THEN acc
    ELSE xl_loop(geodata, i + 1, xl_entry(acc, geodata[i]))

\* lines 60-73: the set countries_only and the list country_province_pairs
extract_locations(geodata) ==
    xl_loop(geodata, 1, [countries_only |-> <<>>, country_province_pairs |-> <<>>])

InitClassify ==
    /\ geo_data \in GeoLists
    /\ pcX = "start"
    /\ xCountries = <<>>
    /\ xPairs = <<>>
    /\ out = <<>>
    /\ LookupIdle
    /\ BatchIdle
    /\ CliIdle
    /\ LoadIdle

\* lines 60-73: the call; list(countries_only) comes in any order
Classify ==
    /\ pcX = "start"
    /\ LET r == extract_locations(geo_data) IN
        /\ xCountries' \in ListsOf(r.countries_only)
        /\ xPairs' = r.country_province_pairs
    /\ pcX' = "returned"
    /\ UNCHANGED <<geo_data, lookupVars, out, batchVars, cliVars, loadVars>>

NextClassify == Classify

SpecClassify == InitClassify /\ [][NextClassify]_vars

(***************************************************************************)
(* Properties of extract_locations (checked under SpecClassify).           *)
(***************************************************************************)
\* the record has a country (present, not null, not empty)
HasCountry(r) == "country" \in DOMAIN r.v /\ r.v.country \notin { None, JStr("") }

\* the record has a province (present, not null, not empty)
HasProvince(r) == "province" \in DOMAIN r.v /\ r.v.province \notin { None, JStr("") }

\* positions of the records with a country and no province, and with both
CountryOnlyAt == { i \in 1..Len(geo_data) :
                     HasCountry(geo_data[i]) /\ ~HasProvince(geo_data[i]) }
PairAt == { i \in 1..Len(geo_data) :
              HasCountry(geo_data[i]) /\ HasProvince(geo_data[i]) }

\* C11: a record without a country contributes to neither output, a record with
\* a country and no province contributes its country to countries_only, a
\* record with both contributes the pair to country_province_pairs and nothing
\* to countries_only; extract_locations([]) returns two empty collections.
C11_ClassificationRule ==
    pcX = "returned" =>
        /\ Range(xCountries) = { geo_data[i].v.country : i \in CountryOnlyAt }
        /\ Range(xPairs) =
             { <<geo_data[i].v.country, geo_data[i].v.province>> : i \in PairAt }
        /\ geo_data = <<>> => (xCountries = <<>> /\ xPairs = <<>>)

\* a record without a country and a record with a country and an empty province
\* have been classified
C11_Witness ==
    /\ pcX = "returned"
    /\ geo_data = <<Record(None, JStr("Bahia")), Record(JStr("France"), JStr(""))>>
    /\ xCountries = <<JStr("France")>>
    /\ xPairs = <<>>

\* C12 as stated: a country appears in countries_only only if no record of the
\* input for that country carries a province.
C12_NoProvinceForCountry ==
    pcX = "returned" =>
        \A c \in Range(xCountries) :
            ~\E i \in 1..Len(geo_data) :
                /\ HasCountry(geo_data[i])
                /\ geo_data[i].v.country = c
                /\ HasProvince(geo_data[i])

\* C12 amended: a country appears in countries_only only if at least one record
\* of the input for that country carries no province.
C12_SomeRecordWithoutProvince ==
    pcX = "returned" =>
        \A c \in Range(xCountries) :
            \E i \in CountryOnlyAt : geo_data[i].v.country = c

\* a country is in countries_only and also in a pair
C12_Witness ==
    /\ pcX = "returned"
    /\ JStr("Brazil") \in Range(xCountries)
    /\ <<JStr("Brazil"), JStr("Bahia")>> \in Range(xPairs)

\* the records with both a country and a province, in input order
PairRecords == SelectSeq(geo_data, LAMBDA r : HasCountry(r) /\ HasProvince(r))

\* C13: country_province_pairs is, in the same relative order and with
\* duplicates retained, the sequence of the (country, province) pairs of the
\* records that have both; its length is the number of such records.
C13_PairsInInputOrder ==
    pcX = "returned" =>
        /\ Len(xPairs) = Cardinality(PairAt)
        /\ xPairs = [i \in 1..Len(PairRecords) |->
                        <<PairRecords[i].v.country, PairRecords[i].v.province>>]

\* two records with a province were given in an order that is not sorted
C13_Witness ==
    /\ pcX = "returned"
    /\ xPairs = << <<JStr("France"), JStr("Bahia")>>, <<JStr("Brazil"), JStr("Bahia")>> >>

\* C14: countries_only contains each country at most once, however many
\* province-less records the input has for that country.
C14_CountriesOnce ==
    pcX = "returned" =>
        \A i, j \in 1..Len(xCountries) : i # j => xCountries[i] # xCountries[j]

\* two province-less records of one country gave one entry
C14_Witness ==
    /\ pcX = "returned"
    /\ Cardinality({ i \in CountryOnlyAt : geo_data[i].v.country = JStr("France") }) = 2
    /\ xCountries = <<JStr("France")>>

(***************************************************************************)
(* The commands (src/src/pygts/cli.py) and plot_species_distribution       *)
(* (src/src/pygts/visualizer.py).                                          *)
(***************************************************************************)
\* the location records the service answers with in this specification
CliRecords ==
    { Record(c, p) :
        c \in { Absent, None, JStr("Brazil"), JStr("brazil"), JStr("Peru") },
        p \in { None, JStr("Amazonas"), JStr("amazonas") } }

\* TSGeolinks values: no data, lists of records, and values of an unexpected type
CliGeolinks ==
    { EmptyList, JBool(TRUE), JStr("x"), Loc("Brazil") }
        \cup { JArr(sq) : sq \in UNION { [1..n -> CliRecords] : n \in 1..MaxRecords } }

\* outcomes of the GET: a timeout, a 404, no results, a result with TSGeolinks
CliNets ==
    { [t |-> "raise", exc |-> "Timeout", status |-> 0, json |-> FALSE, body |-> None],
      [t |-> "response", exc |-> "none", status |-> 404, json |-> TRUE, body |-> EmptyDict],
      [t |-> "response", exc |-> "none", status |-> 200, json |-> TRUE,
       body |-> JObj([results |-> EmptyList])] }
    \cup { [t |-> "response", exc |-> "none", status |-> 200, json |-> TRUE,
            body |-> JObj([results |-> JArr(<<JObj([TSGeolinks |-> g])>>)])] :
            g \in CliGeolinks }

\* the names of the polygons of the two datasets (NAME; admin, name)
WorldNames == { "Brazil", "Peru", "France" }
ProvincePolygons == { <<"Brazil", "Amazonas">>, <<"Peru", "Amazonas">>, <<"Brazil", "Bahia">> }

\* the order of str values under <
StrRank(x) ==
    CASE x = "(entire country)" -> 1
      [] x = "Amazonas" -> 2
      [] x = "Bahia" -> 3
      [] x = "Brazil" -> 4
      [] x = "France" -> 5
      [] x = "Peru" -> 6
      [] x = "Unknown" -> 7
      [] x = "amazonas" -> 8
      [] x = "brazil" -> 9
      [] OTHER -> 10

\* sorted(sq) for a list whose elements compare as their ranks rk[x]
Sorted(sq, rk) ==
    LET n == Len(sq)
        p == CHOOSE f \in [1..n -> 1..n] :
                /\ \A i, j \in 1..n : i # j => f[i] # f[j]
                /\ \A i, j \in 1..n : i < j => rk[sq[f[i]]] <= rk[sq[f[j]]]
    IN  [i \in 1..n |-> sq[p[i]]]

\* a printed line
Line(kind, text) == <<[line |-> kind, exc |-> text]>>

\* a variant that always reports success
cli_check_zero(exists) ==
    IF exists THEN [out |-> Line("exists", ""), pc |-> "exited", exit |-> 0]
    ELSE [out |-> Line("not found", ""), pc |-> "exited", exit |-> 0]

\* cli.py lines 33-38: the message and sys.exit
cli_check(exists) ==
    IF exists THEN [out |-> Line("exists", ""), pc |-> "exited", exit |-> 0]
    ELSE [out |-> Line("not found", ""), pc |-> "exited", exit |-> 1]

\* the ranks of the str values of a list
StrRanks(sq) == [x \in Range(sq) |-> StrRank(x.v)]

\* len(data): the values that have a length
HasLen(x) == x.k \in { "list", "dict", "str" }
PyLen(x) == IF x.k = "list" THEN Len(x.v)
            ELSE IF x.k = "dict" THEN Cardinality(DOMAIN x.v)
            ELSE 1

\* cli.py lines 68-70: the key of by_country an entry goes under
FetchCountry(entry) == DictGet(entry, "country", JStr("Unknown"))

\* cli.py lines 70-74: what the entry appends to by_country[country]
FetchProvince(entry) ==
    LET province == DictGet(entry, "province", None) IN
    IF Truthy(province) THEN province ELSE JStr("(entire country)")

\* by_country[country]: the provinces of the entries of that country, in order
ByCountry(data, country) ==
    LET sel == SelectSeq(data, LAMBDA e : FetchCountry(e) = country) IN
    [i \in 1..Len(sel) |-> FetchProvince(sel[i])]

RECURSIVE FetchLines(_, _, _)
\* cli.py lines 76-79: the lines of the countries keys[i..], each followed by
\* its provinces in sorted order
FetchLines(data, keys, i) ==
    IF i > Len(keys) THEN <<>>
    ELSE LET provinces == Sorted(ByCountry(data, keys[i]), StrRanks(ByCountry(data, keys[i]))) IN
         Line("country", keys[i])
         \o [j \in 1..Len(provinces) |-> Line("province", provinces[j])[1]]
         \o FetchLines(data, keys, i + 1)

\* cli.py lines 64-79: the grouped text listing of a list of dicts
FetchText(data) ==
    LET keyset == { FetchCountry(data[i]) : i \in 1..Len(data) }
        keylist == CHOOSE sq \in [1..Cardinality(keyset) -> keyset] : Range(sq) = keyset
    IN  IF Cardinality(keyset) > 1 /\ \E x \in keyset : x.k # "str"
        THEN [out |-> <<>>, pc |-> "raised", exit |-> 0 - 1]
        ELSE [out |-> FetchLines(data, Sorted(keylist, StrRanks(keylist)), 1),
              pc |-> "returned", exit |-> 0 - 1]

\* cli.py lines 51-79: cli_fetch once request_data has returned data
cli_fetch(data, json) ==
    IF data = None
    THEN [out |-> Line("No data found", ""), pc |-> "exited", exit |-> 1]
    ELSE IF ~HasLen(data)
    THEN [out |-> Line("header", ""), pc |-> "raised", exit |-> 0 - 1]
    ELSE LET head == Line("header", "") \o Line("Total locations", PyLen(data)) IN
         IF json
         THEN [out |-> head \o Line("json", data), pc |-> "returned", exit |-> 0 - 1]
         ELSE IF ~IsList(data)
         THEN [out |-> head, pc |-> "raised", exit |-> 0 - 1]
         ELSE LET t == FetchText(data.v) IN
              [out |-> head \o t.out, pc |-> t.pc, exit |-> t.exit]

\* the classification of no record
NoLocations == [countries_only |-> <<>>, country_province_pairs |-> <<>>]

\* sort key of a (country, province) tuple
PairRank(pr) == StrRank(pr[1].v) * 100 + StrRank(pr[2].v)

\* visualizer.py lines 129-136: the summary
Summary(cl) ==
    LET pairs == Sorted(cl.country_province_pairs,
                        [pr \in Range(cl.country_province_pairs) |-> PairRank(pr)]) IN
    Line("distribution", "")
    \o (IF cl.countries_only # <<>>
        THEN Line("Countries (entire)", Sorted(cl.countries_only, StrRanks(cl.countries_only)))
        ELSE <<>>)
    \o (IF pairs # <<>>
        THEN Line("Specific provinces/states", "")
             \o [j \in 1..Len(pairs) |-> Line("pair", pairs[j])[1]]
        ELSE <<>>)

\* a variant without the second early return
plot_head_noreturn(geodata, cl) ==
    IF ~Truthy(geodata)
    THEN [pc |-> "returned", out |-> Line("No geographical data found", "")]
    ELSE IF ~IsList(geodata)
    THEN [pc |-> "raised", out |-> <<>>]
    ELSE [pc |-> "load_world", out |-> Summary(cl)]

\* visualizer.py lines 118-136: from the value of request_data to the summary;
\* cl is what extract_locations returned
plot_head(geodata, cl) ==
    IF ~Truthy(geodata)
    THEN [pc |-> "returned", out |-> Line("No geographical data found", "")]
    ELSE IF ~IsList(geodata)
    THEN [pc |-> "raised", out |-> <<>>]
    ELSE IF cl.countries_only = <<>> /\ cl.country_province_pairs = <<>>
    THEN [pc |-> "returned", out |-> Line("No location data found", "")]
    ELSE [pc |-> "load_world", out |-> Summary(cl)]

\* visualizer.py line 147: world["NAME"].isin(countries_only)
mark_world(countries) == { nm \in WorldNames : JStr(nm) \in Range(countries) }

\* a variant that matches on the name of the province only
mark_mask_nameonly(country, province) ==
    { poly \in ProvincePolygons : JStr(poly[2]) = province }

\* visualizer.py line 153: the mask of one pair
mark_mask(country, province) ==
    { poly \in ProvincePolygons : JStr(poly[1]) = country /\ JStr(poly[2]) = province }

RECURSIVE mark_provinces(_, _, _)
\* visualizer.py lines 150-154: the loop over the pairs, from pair i on
mark_provinces(pairs, i, present) ==
    IF i > Len(pairs) THEN present
    ELSE mark_provinces(pairs, i + 1,
                        present \cup mark_mask(pairs[i][1], pairs[i][2]))

\* cli.py lines 94-97: the confirmation of cli_visualize
Confirm(output) ==
    IF output THEN Line("Map saved to (cli)", "") ELSE Line("Displaying map", "")

\* the classifications extract_locations may return on the value
Classifications(geodata) ==
    IF Truthy(geodata) /\ IsList(geodata)
    THEN LET r == extract_locations(geodata.v) IN
         { [countries_only |-> c, country_province_pairs |-> r.country_province_pairs] :
             c \in ListsOf(r.countries_only) }
    ELSE { NoLocations }

InitCli ==
    /\ cmd \in { "check", "fetch", "visualize" }
    /\ argJson \in (IF cmd = "fetch" THEN BOOLEAN ELSE { FALSE })
    /\ argOutput \in (IF cmd = "visualize" THEN BOOLEAN ELSE { FALSE })
    /\ net \in CliNets
    /\ pcCli = "start"
    /\ exitCode = 0 - 1
    /\ pcPlot = "idle"
    /\ geo = None
    /\ cls = NoLocations
    /\ io = <<>>
    /\ worldPresent = {}
    /\ provPresent = {}
    /\ savefigCalls = 0
    /\ showCalls = 0
    /\ pcRD = "idle"
    /\ rdRet = None
    /\ pcSE = "idle"
    /\ seRet = FALSE
    /\ gets = <<>>
    /\ out = <<>>
    /\ BatchIdle
    /\ ClassifyIdle
    /\ LoadIdle

\* cli.py lines 23-38: cli_check
Cli_Check ==
    /\ cmd = "check"
    /\ pcCli = "start"
    /\ LET e == species_exists(net)
           r == cli_check(e.ret)
       IN  /\ seRet' = e.ret
           /\ out' = out \o r.out
           /\ pcCli' = r.pc
           /\ exitCode' = r.exit
    /\ gets' = Append(gets, [by |-> "species_exists", timeout |-> RequestTimeout])
    /\ UNCHANGED <<net, pcRD, rdRet, pcSE, cmd, argJson, argOutput, pcPlot, geo, cls,
                   io, worldPresent, provPresent, savefigCalls, showCalls,
                   batchVars, classifyVars, loadVars>>

\* cli.py lines 41-79: cli_fetch
Cli_Fetch ==
    /\ cmd = "fetch"
    /\ pcCli = "start"
    /\ LET d == request_data(net)
           r == cli_fetch(d.ret, argJson)
       IN  /\ geo' = d.ret
           /\ out' = out \o d.out \o r.out
           /\ pcCli' = r.pc
           /\ exitCode' = r.exit
    /\ gets' = Append(gets, [by |-> "request_data", timeout |-> RequestTimeout])
    /\ UNCHANGED <<net, pcRD, rdRet, pcSE, seRet, cmd, argJson, argOutput, pcPlot, cls,
                   io, worldPresent, provPresent, savefigCalls, showCalls,
                   batchVars, classifyVars, loadVars>>

\* cli.py line 92 and visualizer.py lines 116-136: cli_visualize calls
\* plot_species_distribution, which runs up to the first read_file; when it
\* returns early, cli_visualize prints its confirmation (cli.py lines 94-97)
Plot_Begin ==
    /\ cmd = "visualize"
    /\ pcCli = "start"
    /\ LET d == request_data(net) IN
       \E cl \in Classifications(d.ret) :
          LET h == plot_head(d.ret, cl) IN
          /\ geo' = d.ret
          /\ cls' = cl
          /\ pcPlot' = h.pc
          /\ pcCli' = IF h.pc = "load_world" THEN "plotting" ELSE h.pc
          /\ out' = out \o d.out \o h.out
                    \o (IF h.pc = "returned" THEN Confirm(argOutput) ELSE <<>>)
    /\ gets' = Append(gets, [by |-> "request_data", timeout |-> RequestTimeout])
    /\ UNCHANGED <<net, pcRD, rdRet, pcSE, seRet, cmd, argJson, argOutput, exitCode,
                   io, worldPresent, provPresent, savefigCalls, showCalls,
                   batchVars, classifyVars, loadVars>>

\* a variant that reports a fault of read_file and returns
Plot_LoadWorld_swallow ==
    /\ pcPlot = "load_world"
    /\ \E ok \in BOOLEAN :
        /\ io' = Append(io, [op |-> "read_world", ok |-> ok])
        /\ pcPlot' = IF ok THEN "load_provinces" ELSE "returned"
        /\ pcCli' = IF ok THEN pcCli ELSE "returned"
        /\ out' = IF ok THEN out ELSE out \o Line("error", "") \o Confirm(argOutput)
    /\ UNCHANGED <<lookupVars, cmd, argJson, argOutput, exitCode, geo, cls,
                   worldPresent, provPresent, savefigCalls, showCalls,
                   batchVars, classifyVars, loadVars>>

\* visualizer.py lines 139-141: gpd.read_file of the countries; its fault is
\* not caught, neither by plot_species_distribution nor by cli_visualize
Plot_LoadWorld ==
    /\ pcPlot = "load_world"
    /\ \E ok \in BOOLEAN :
        /\ io' = Append(io, [op |-> "read_world", ok |-> ok])
        /\ pcPlot' = IF ok THEN "load_provinces" ELSE "raised"
        /\ pcCli' = IF ok THEN pcCli ELSE "raised"
    /\ UNCHANGED <<lookupVars, out, cmd, argJson, argOutput, exitCode, geo, cls,
                   worldPresent, provPresent, savefigCalls, showCalls,
                   batchVars, classifyVars, loadVars>>

\* visualizer.py lines 142-193: gpd.read_file of the provinces, then the
\* marking of both datasets and the drawing
Plot_LoadProvinces ==
    /\ pcPlot = "load_provinces"
    /\ \E ok \in BOOLEAN :
        /\ io' = Append(io, [op |-> "read_provinces", ok |-> ok])
        /\ pcPlot' = IF ok THEN "render" ELSE "raised"
        /\ pcCli' = IF ok THEN pcCli ELSE "raised"
        /\ worldPresent' = IF ok THEN mark_world(cls.countries_only) ELSE worldPresent
        /\ provPresent' = IF ok THEN mark_provinces(cls.country_province_pairs, 1, {})
                          ELSE provPresent
    /\ UNCHANGED <<lookupVars, out, cmd, argJson, argOutput, exitCode, geo, cls,
                   savefigCalls, showCalls, batchVars, classifyVars, loadVars>>

\* visualizer.py lines 195-199 and cli.py lines 94-97: savefig or show, then
\* the return to cli_visualize and its confirmation
Plot_Render ==
    /\ pcPlot = "render"
    /\ IF argOutput
       THEN \E ok \in BOOLEAN :
              /\ io' = Append(io, [op |-> "savefig", ok |-> ok])
              /\ savefigCalls' = savefigCalls + 1
              /\ showCalls' = showCalls
              /\ pcPlot' = IF ok THEN "returned" ELSE "raised"
              /\ pcCli' = IF ok THEN "returned" ELSE "raised"
              /\ out' = IF ok THEN out \o Line("Map saved to", "") \o Confirm(argOutput)
                        ELSE out
       ELSE /\ io' = io
            /\ savefigCalls' = savefigCalls
            /\ showCalls' = showCalls + 1
            /\ pcPlot' = "returned"
            /\ pcCli' = "returned"
            /\ out' = out \o Confirm(argOutput)
    /\ UNCHANGED <<lookupVars, cmd, argJson, argOutput, exitCode, geo, cls,
                   worldPresent, provPresent, batchVars, classifyVars, loadVars>>

NextCli ==
    \/ Cli_Check
    \/ Cli_Fetch
    \/ Plot_Begin
    \/ Plot_LoadWorld
    \/ Plot_LoadProvinces
    \/ Plot_Render

SpecCli == InitCli /\ [][NextCli]_vars

(***************************************************************************)
(* Properties of the commands and of the plot (checked under SpecCli).     *)
(***************************************************************************)
\* a line of that kind has been printed
Printed(kind) == \E i \in 1..Len(out) : out[i].line = kind

\* the value of the lookup is a list none of whose records has a country
ClassificationEmpty ==
    /\ geo # None
    /\ IsList(geo)
    /\ \A i \in 1..Len(geo.v) : ~HasCountry(geo.v[i])

\* C15: when the lookup returns no data, or the classification is empty in both
\* fields, plot_species_distribution prints a no-data message and returns
\* without loading either polygon dataset and without rendering.
C15_NoDataNoRender ==
    (cmd = "visualize" /\ pcCli # "start" /\ (geo = None \/ ClassificationEmpty)) =>
        /\ pcPlot = "returned"
        /\ Printed("No geographical data found") \/ Printed("No location data found")
        /\ io = <<>>
        /\ savefigCalls = 0
        /\ showCalls = 0

\* the lookup returned records, none with a country, and the plot has returned
C15_Witness ==
    /\ cmd = "visualize"
    /\ pcPlot = "returned"
    /\ ClassificationEmpty
    /\ Printed("No location data found")

Marked == Len(io) >= 2 /\ io[1].ok /\ io[2].ok

\* C17: a country polygon is marked exactly when its NAME equals, with case, an
\* entry of countries_only, and a province polygon exactly when its
\* (admin, name) equals an entry of country_province_pairs on both fields.
C17_ExactMarking ==
    Marked =>
        /\ \A nm \in WorldNames :
             nm \in worldPresent <=>
                \E i \in 1..Len(cls.countries_only) : cls.countries_only[i] = JStr(nm)
        /\ worldPresent \subseteq WorldNames
        /\ \A poly \in ProvincePolygons :
             poly \in provPresent <=>
                \E i \in 1..Len(cls.country_province_pairs) :
                    cls.country_province_pairs[i] = <<JStr(poly[1]), JStr(poly[2])>>
        /\ provPresent \subseteq ProvincePolygons

\* a country in another case is not marked, and of two provinces of one name
\* only that of the right country is
C17_Witness ==
    /\ Marked
    /\ cls.countries_only = <<JStr("brazil")>>
    /\ cls.country_province_pairs = << <<JStr("Brazil"), JStr("Amazonas")>> >>
    /\ worldPresent = {}
    /\ provPresent = { <<"Brazil", "Amazonas">> }

\* C18: the check command terminates the process with exit code 0 when
\* species_exists returns True and with exit code 1 otherwise.
C18_CheckExitCode ==
    (cmd = "check" /\ pcCli # "start") =>
        /\ pcCli = "exited"
        /\ exitCode = IF seRet THEN 0 ELSE 1

\* the species exists and the command has exited with 0
C18_Witness ==
    /\ cmd = "check"
    /\ pcCli = "exited"
    /\ seRet
    /\ exitCode = 0

\* a line of the data listing has been printed
ListingPrinted == Printed("json") \/ Printed("country")

\* C19: the fetch command exits with code 1 when the lookup yields no data and
\* prints nothing of the listing; when the lookup yields data it prints the
\* listing and returns without exiting with an error.
C19_FetchExit ==
    (cmd = "fetch" /\ pcCli # "start") =>
        IF geo = None
        THEN pcCli = "exited" /\ exitCode = 1 /\ ~ListingPrinted
                /\ ~Printed("header") /\ ~Printed("Total locations")
        ELSE pcCli = "returned" /\ ListingPrinted

(***************************************************************************)
(* load_species_data (src/src/pygts/utils.py), on one row of the file.  A  *)
(* name is the sequence of its characters.                                 *)
(***************************************************************************)
MaxNameLen == 5

\* the characters of a name: letters, the space and the tab
Chars == { "a", "b", " ", "\t" }

\* the TaxonName cells read_csv yields as str
TaxonNames == UNION { [1..n -> Chars] : n \in 1..MaxNameLen }

RECURSIVE split(_, _)
\* str.split(sep): cut at every occurrence of sep, empty pieces kept
split(str, sep) ==
    IF \A i \in 1..Len(str) : str[i] # sep THEN <<str>>
    ELSE LET i == CHOOSE k \in 1..Len(str) :
                    str[k] = sep /\ \A j \in 1..(k - 1) : str[j] # sep
         IN  <<SubSeq(str, 1, i - 1)>> \o split(SubSeq(str, i + 1, Len(str)), sep)

\* utils.py lines 42-45: the two lambdas on the cell x; [1] raises IndexError
\* when split yields one piece
load_row(x) ==
    LET parts == split(x, " ") IN
    IF Len(parts) < 2 THEN [pc |-> "raised", Genus |-> parts[1], Species |-> <<>>]
    ELSE [pc |-> "returned", Genus |-> parts[1], Species |-> parts[2]]

InitLoad ==
    /\ taxon \in TaxonNames
    /\ pcLoad = "start"
    /\ loadedRow = [TaxonName |-> <<>>, Genus |-> <<>>, Species |-> <<>>]
    /\ out = <<>>
    /\ LookupIdle
    /\ BatchIdle
    /\ ClassifyIdle
    /\ CliIdle

\* utils.py lines 40-46: load_species_data
Load ==
    /\ pcLoad = "start"
    /\ LET r == load_row(taxon) IN
        /\ pcLoad' = r.pc
        /\ loadedRow' = IF r.pc = "returned"
                        THEN [TaxonName |-> taxon, Genus |-> r.Genus, Species |-> r.Species]
                        ELSE loadedRow
    /\ UNCHANGED <<taxon, lookupVars, out, batchVars, classifyVars, cliVars>>

NextLoad == Load

SpecLoad == InitLoad /\ [][NextLoad]_vars

(***************************************************************************)
(* Properties of load_species_data (checked under SpecLoad).               *)
(***************************************************************************)
IsSpace(ch) == ch \in { " ", "\t" }

RECURSIVE Tokens(_)
\* the whitespace-separated tokens of a name
Tokens(str) ==
    IF \A i \in 1..Len(str) : IsSpace(str[i]) THEN <<>>
    ELSE LET b == CHOOSE k \in 1..Len(str) :
                    ~IsSpace(str[k]) /\ \A j \in 1..(k - 1) : IsSpace(str[j])
             e == CHOOSE k \in b..Len(str) :
                    /\ \A j \in b..k : ~IsSpace(str[j])
                    /\ k = Len(str) \/ IsSpace(str[k + 1])
         IN  <<SubSeq(str, b, e)>> \o Tokens(SubSeq(str, e + 1, Len(str)))

\* C20: for every TaxonName of at least two tokens, load_species_data sets
\* Genus to the first and Species to the second whitespace-separated token,
\* ignores further tokens, and keeps TaxonName unchanged.
C20_FirstTwoTokens ==
    (pcLoad # "start" /\ Len(Tokens(taxon)) >= 2) =>
        /\ pcLoad = "returned"
        /\ loadedRow.Genus = Tokens(taxon)[1]
        /\ loadedRow.Species = Tokens(taxon)[2]
        /\ loadedRow.TaxonName = taxon

\* C29: whenever the visualize command prints the confirmation that the map
\* was saved to the output path, plot_species_distribution has rendered and
\* saved a map to that path in the same run; when the species has no data and
\* no map is produced, the confirmation is not printed.
C29_ConfirmationMeansSaved ==
    (cmd = "visualize" /\ Printed("Map saved to (cli)")) =>
        /\ savefigCalls = 1
        /\ Len(io) = 3
        /\ io[3] = [op |-> "savefig", ok |-> TRUE]
        /\ pcPlot = "returned"

====
